---- MODULE Spec2Model ----
(***************************************************************************)
(* Model of pulseaudio_dlna/plugins/upnp/renderer.py: the UPnP media       *)
(* renderer control point (UpnpService, UpnpMediaRenderer,                 *)
(* CoinedUpnpMediaRenderer).                                               *)
(*                                                                         *)
(* Spec          the transport controller of one validated Device: the    *)
(*               six action calls and the high-level play, one network     *)
(*               request per step.                                         *)
(* SpecProtocol  get_protocol_info over the bounded set of Sink strings.   *)
(* SpecDevice    construction of a Device from a service list, validate(). *)
(* SpecAddress   a Device whose ip and port change after construction.     *)
(* SpecFeatures  one UpnpContentFeatures, constructed and rendered.        *)
(* SpecFactory   from_url over the bounded set of descriptors.             *)
(***************************************************************************)
EXTENDS Integers, Sequences, FiniteSets, TLC

VARIABLES
    state,        \* UpnpMediaRenderer.state
    codecs,       \* UpnpMediaRenderer.codecs (as the mime types they stand for)
    op,           \* the public call in progress, or the last one made
    pc,           \* position inside the call: "ready" when no call is running
    result,       \* what the last finished call returned or raised
    reqs,         \* requests.post calls of the call, in order, with outcomes
    log,          \* logger entries of the call, in order
    hooks,        \* _before_* / _after_* hooks run by the call, in order
    pre,          \* state when the call was entered
    pre_codecs,   \* codecs when the call was entered
    mimes,        \* arguments of add_mime_type in the call, in order
    elapsed,      \* time.time() - start_time in _update_current_state
    upd,          \* return value of _update_current_state in the call
    raised,       \* the exception raised inside the call, if any
    services,     \* the services list handed to UpnpMediaRenderer.__init__
    device,       \* service_transport / service_connection / service_rendering
    valid,        \* outcome of validate(): returned value and logged message
    address,      \* UpnpMediaRenderer.ip and .port
    endpoints,    \* the UpnpService objects of the Device: ip, port and urls
    accessed,     \* the last control_url / event_url property read
    features,     \* an UpnpContentFeatures object and what str() gave for it
    fetch,        \* the url given to from_url and what requests.get will give
    made,         \* what from_url returned or raised
    changed       \* the request whose handling last changed the state

vars == <<state, changed, codecs, op, pc, result, reqs, log, hooks, pre, pre_codecs,
          mimes, elapsed, upd, raised, services, device, valid,
          address, endpoints, accessed, features, fetch, made>>

device_vars == <<services, device, valid>>

address_vars == <<address, endpoints, accessed>>

other_vars == <<features, fetch, made>>

----------------------------------------------------------------------------
(* Bounds of the model.                                                    *)

\* REQUEST_TIMEOUT of BaseRenderer, in seconds (the deadline of
\* _update_current_state and the timeout of every request).
REQUEST_TIMEOUT == 3

\* Longest time, in whole seconds, an answered poll may block.
MaxPollDelay == 1

----------------------------------------------------------------------------
(* BaseRenderer's state constants.                                         *)

IDLE == "idle"
PLAYING == "playing"
PAUSE == "paused"
STOP == "stopped"

States == {IDLE, PLAYING, PAUSE, STOP}

----------------------------------------------------------------------------
(* Outcomes of requests.post.                                              *)

\* HTTP status codes a device answers with.
Statuses == {200, 204, 404, 500}

\* Bodies of a 200 GetTransportInfo answer: the text of CurrentTransportState,
\* an element with no text, a document without the element, or no XML at all.
TransportBodies == {"PLAYING", "STOPPED", "TRANSITIONING", "empty", "missing", "malformed"}

Answer(s, b) == [kind |-> "answer", status |-> s, body |-> b, sink |-> <<>>]
AnswerSink(k) == [kind |-> "answer", status |-> 200, body |-> "sink", sink |-> k]
Timeout == [kind |-> "timeout", status |-> 0, body |-> "none", sink |-> <<>>]
Refused == [kind |-> "refused", status |-> 0, body |-> "none", sink |-> <<>>]

Failures == {Timeout, Refused}

\* What a Play, Stop, Pause or SetAVTransportURI request can end in.
SimpleOutcomes == {Answer(s, "xml") : s \in Statuses} \cup Failures

\* What a GetTransportInfo request can end in.
TransportOutcomes ==
    {Answer(200, b) : b \in TransportBodies}
    \cup {Answer(s, "fault") : s \in Statuses \ {200}}
    \cup Failures

\* Values a call returns or raises.
Ret(v) == [k |-> "int", v |-> v, s |-> ""]
RetStr(t) == [k |-> "str", v |-> 0, s |-> t]
RetNone == [k |-> "None", v |-> 0, s |-> ""]
Raise(e) == [k |-> "raise", v |-> 0, s |-> e]
Running == [k |-> "running", v |-> 0, s |-> ""]

ConnectionError == Raise("ConnectionError")
NoSuitableEncoderFoundException == Raise("NoSuitableEncoderFoundException")

\* bool(response): None is false, and requests.Response is true iff it is ok.
Truthy(o) == o.kind = "answer" /\ o.status < 400

----------------------------------------------------------------------------
(* Log entries.                                                            *)

\* logger.error(...{url}...) of the except branches.
ErrorEntry(what) ==
    [level |-> "error", text |-> what, url |-> TRUE, none |-> FALSE, status |-> 0]

\* logger.info / warning / error of CoinedUpnpMediaRenderer.play: no url.
PlainEntry(level, what) ==
    [level |-> level, text |-> what, url |-> FALSE, none |-> FALSE, status |-> 0]

_debug(action, o) ==
    [level |-> "debug", text |-> action, url |-> TRUE,
     none |-> ~Truthy(o),
     status |-> IF Truthy(o) THEN o.status ELSE 0]

\* The log as it would be if the Timeout branch logged nothing.
RequestLog_debug_only(action, what, o) == <<_debug(action, o)>>

\* The log as it would be if the debug entry followed the try statement
\* instead of standing in its finally block.
RequestLog_after_try(action, what, o) ==
    CASE o.kind = "timeout" -> <<ErrorEntry(what)>>
      [] o.kind = "refused" -> <<>>
      [] OTHER -> <<_debug(action, o)>>

\* The log of a call whose request ended in o: the Timeout branch logs an
\* error, the finally block logs the debug entry.
RequestLog(action, what, o) ==
    (IF o.kind = "timeout" THEN <<ErrorEntry(what)>> ELSE <<>>)
    \o <<_debug(action, o)>>

\* The value of a call that returns response.status_code, 408 on Timeout, and
\* lets ConnectionError through.
StatusOf(o) ==
    CASE o.kind = "answer" -> Ret(o.status)
      [] o.kind = "timeout" -> Ret(408)
      [] OTHER -> ConnectionError

----------------------------------------------------------------------------
(* The action calls of UpnpMediaRenderer, as the effect of one call whose   *)
(* request ended in o, entered with local state st.                        *)

Req(action, o) == [action |-> action, out |-> o]

Effect(st, ret, lg, hk) == [state |-> st, ret |-> ret, log |-> lg, hooks |-> hk]

\* register(): lines 266-279, once the request body is prepared.
register(st, o) ==
    Effect(st, StatusOf(o), RequestLog("register", "REGISTER", o),
           <<"_before_register", "_after_register">>)

\* codec = codec or self.codec (line 233), after _before_register (line 231):
\* self.codec raises NoSuitableEncoderFoundException when no encoder fits.
register_prepare(codec_given, encoder) ==
    IF codec_given \/ encoder THEN "ok" ELSE "NoSuitableEncoderFoundException"

\* The text get_transport_info extracts from a 200 answer.
ParseTransportState(body) ==
    CASE body \in {"malformed", "missing"} -> Raise("parse")
      [] body = "empty" -> RetNone
      [] OTHER -> RetStr(body)

\* get_transport_info() as it would be if it stored the state it read.
get_transport_info_storing(st, o) ==
    LET parsed == ParseTransportState(o.body)
        ret == CASE o.kind = "refused" -> ConnectionError
                 [] o.kind = "timeout" -> RetNone
                 [] o.status # 200 -> RetNone
                 [] parsed.k = "raise" -> RetNone
                 [] OTHER -> parsed
        lg == (IF o.kind = "timeout" THEN <<ErrorEntry("TRANSPORT_INFO")>> ELSE <<>>)
              \o (IF o.kind = "answer" /\ o.status = 200 /\ parsed.k = "raise"
                  THEN <<ErrorEntry("No valid XML")>> ELSE <<>>)
              \o <<_debug("get_transport_info", o)>>
    IN  Effect(CASE ret = RetStr("PLAYING") -> PLAYING
                 [] ret = RetStr("STOPPED") -> STOP
                 [] OTHER -> st,
               ret, lg, <<>>)

get_transport_info(st, o) ==
    LET parsed == ParseTransportState(o.body)
        ret == CASE o.kind = "refused" -> ConnectionError
                 [] o.kind = "timeout" -> RetNone
                 [] o.status # 200 -> RetNone
                 [] parsed.k = "raise" -> RetNone
                 [] OTHER -> parsed
        lg == (IF o.kind = "timeout" THEN <<ErrorEntry("TRANSPORT_INFO")>> ELSE <<>>)
              \o (IF o.kind = "answer" /\ o.status = 200 /\ parsed.k = "raise"
                  THEN <<ErrorEntry("No valid XML")>> ELSE <<>>)
              \o <<_debug("get_transport_info", o)>>
    IN  Effect(st, ret, lg, <<>>)

\* play() as it would be with the status test of line 378 left out.
play_on_any_answer(st, o) ==
    Effect(IF o.kind = "answer" THEN PLAYING ELSE st,
           StatusOf(o), RequestLog("play", "PLAY", o),
           <<"_before_play", "_after_play">>)

\* play() as it would be without the assignment of line 379.
play_keeping_state(st, o) ==
    Effect(st, StatusOf(o), RequestLog("play", "PLAY", o),
           <<"_before_play", "_after_play">>)

play(st, o) ==
    Effect(IF o.kind = "answer" /\ o.status = 200 THEN PLAYING ELSE st,
           StatusOf(o), RequestLog("play", "PLAY", o),
           <<"_before_play", "_after_play">>)

\* stop() as it would be if it assigned STOP at line 410.
stop_to_stopped(st, o) ==
    Effect(IF o.kind = "answer" /\ o.status = 200 THEN STOP ELSE st,
           StatusOf(o), RequestLog("stop", "STOP", o),
           <<"_before_stop", "_after_stop">>)

stop(st, o) ==
    Effect(IF o.kind = "answer" /\ o.status = 200 THEN IDLE ELSE st,
           StatusOf(o), RequestLog("stop", "STOP", o),
           <<"_before_stop", "_after_stop">>)

pause(st, o) ==
    Effect(IF o.kind = "answer" /\ o.status = 200 THEN PAUSE ELSE st,
           StatusOf(o), RequestLog("pause", "PAUSE", o), <<>>)

----------------------------------------------------------------------------
(* _update_current_state, lines 214-227.                                   *)

\* The loop condition: time.time() - start_time <= self.REQUEST_TIMEOUT.
BeforeDeadline(el) == el <= REQUEST_TIMEOUT

\* The iteration as it would be if a null poll were retried.
update_current_state_retrying(st, r) ==
    CASE r.k = "None" -> [state |-> st, next |-> "sleep"]
      [] r.k = "str" /\ r.s = "PLAYING" -> [state |-> PLAYING, next |-> "True"]
      [] r.k = "str" /\ r.s = "STOPPED" -> [state |-> STOP, next |-> "True"]
      [] OTHER -> [state |-> st, next |-> "sleep"]

\* The iteration as it would be if "STOPPED" returned true without the
\* assignment of line 224.
update_current_state_not_storing(st, r) ==
    CASE r.k = "None" -> [state |-> st, next |-> "False"]
      [] r.k = "str" /\ r.s = "PLAYING" -> [state |-> PLAYING, next |-> "True"]
      [] r.k = "str" /\ r.s = "STOPPED" -> [state |-> st, next |-> "True"]
      [] OTHER -> [state |-> st, next |-> "sleep"]

\* What one iteration does with the value r of get_transport_info().
update_current_state(st, r) ==
    CASE r.k = "None" -> [state |-> st, next |-> "False"]
      [] r.k = "str" /\ r.s = "PLAYING" -> [state |-> PLAYING, next |-> "True"]
      [] r.k = "str" /\ r.s = "STOPPED" -> [state |-> STOP, next |-> "True"]
      [] OTHER -> [state |-> st, next |-> "sleep"]

\* The branches as they would be if Play were sent whatever the state.
AfterUpdate_always_play(u, st) ==
    CASE u = "False" -> "play"
      [] st = STOP -> "play"
      [] st = PLAYING -> "play"
      [] OTHER -> "None"

\* CoinedUpnpMediaRenderer.play, lines 462-476: what follows the return value
\* u of _update_current_state() with local state st.
AfterUpdate(u, st) ==
    CASE u = "False" -> "play"
      [] st = STOP -> "play"
      [] st = PLAYING -> "return"
      [] OTHER -> "None"

\* The test of line 461 as it would be if every answered registration passed.
AfterRegister_any_answer(return_code) ==
    IF return_code # Ret(408) THEN "update" ELSE "return"

\* CoinedUpnpMediaRenderer.play, lines 461 and 477-479.
AfterRegister(return_code) ==
    IF return_code = Ret(200) THEN "update" ELSE "return"

\* The except clauses as they would be without the one for ConnectionError.
Caught_encoder_only(e) ==
    CASE e = "NoSuitableEncoderFoundException" -> Ret(500)
      [] OTHER -> Raise(e)

\* The except clauses of CoinedUpnpMediaRenderer.play, lines 480-485.
Caught(e) ==
    CASE e = "ConnectionError" -> Ret(404)
      [] e = "NoSuitableEncoderFoundException" -> Ret(500)

CaughtLog(e) ==
    CASE e = "ConnectionError" ->
            <<PlainEntry("error", "The device refused the connection!")>>
      [] e = "NoSuitableEncoderFoundException" ->
            <<PlainEntry("error", "Could not find a suitable encoder!")>>

----------------------------------------------------------------------------
(* UpnpService and the construction and validation of a Device.            *)

\* Longest services list of a device descriptor.
MaxServices == 3

SERVICE_TRANSPORT == "transport"
SERVICE_CONNECTION == "connection"
SERVICE_RENDERING == "rendering"

\* Service type URNs, as their colon-delimited fields.
Urn(name) == <<"urn", "schemas-upnp-org", "service", name>>

ServiceTypes ==
    { Urn("AVTransport") \o <<"1">>,
      Urn("AVTransport") \o <<"2">>,
      Urn("ConnectionManager") \o <<"1">>,
      Urn("RenderingControl") \o <<"1">>,
      Urn("AVTransport"),
      Urn("ContentDirectory") \o <<"1">> }

\* s.startswith(prefix + ':'): the fields of the prefix, then at least one more.
StartsWith(s, prefix) ==
    Len(s) > Len(prefix) /\ SubSeq(s, 1, Len(prefix)) = prefix

\* UpnpService.__init__: the kind of a service, from its service type.
ServiceKind(service_type) ==
    CASE StartsWith(service_type, Urn("AVTransport")) -> SERVICE_TRANSPORT
      [] StartsWith(service_type, Urn("ConnectionManager")) -> SERVICE_CONNECTION
      [] StartsWith(service_type, Urn("RenderingControl")) -> SERVICE_RENDERING
      [] OTHER -> "None"

UpnpService(service) ==
    [type |-> ServiceKind(service.service_type),
     service_type |-> service.service_type]

NoService == [type |-> "None", service_type |-> <<>>]

NoDevice ==
    [service_transport |-> NoService,
     service_connection |-> NoService,
     service_rendering |-> NoService]

\* The loop of UpnpMediaRenderer.__init__ over the first n services: a later
\* service of a kind replaces an earlier one.
RECURSIVE AssignServices(_, _)
AssignServices(list, n) ==
    IF n = 0 THEN NoDevice
    ELSE LET d == AssignServices(list, n - 1)
             service == UpnpService(list[n])
         IN  [service_transport |->
                 IF service.type = SERVICE_TRANSPORT THEN service
                 ELSE d.service_transport,
              service_connection |->
                 IF service.type = SERVICE_CONNECTION THEN service
                 ELSE d.service_connection,
              service_rendering |->
                 IF service.type = SERVICE_RENDERING THEN service
                 ELSE d.service_rendering]

UpnpMediaRenderer(list) == AssignServices(list, Len(list))

\* validate() as it would be without the test of service_rendering.
validate_two_services(d) ==
    CASE d.service_transport = NoService -> [ret |-> "False", msg |-> "transport"]
      [] d.service_connection = NoService -> [ret |-> "False", msg |-> "connection"]
      [] OTHER -> [ret |-> "True", msg |-> "none"]

\* validate(): the value returned and the service the logged message names.
validate(d) ==
    CASE d.service_transport = NoService -> [ret |-> "False", msg |-> "transport"]
      [] d.service_connection = NoService -> [ret |-> "False", msg |-> "connection"]
      [] d.service_rendering = NoService -> [ret |-> "False", msg |-> "rendering"]
      [] OTHER -> [ret |-> "True", msg |-> "none"]

NotValidated == [ret |-> "none", msg |-> "none"]

ServiceLists ==
    UNION { [1..n -> {[service_type |-> t] : t \in ServiceTypes}] : n \in 0..MaxServices }

\* The services of the Device the transport controller drives.
PlayableServices ==
    << [service_type |-> Urn("AVTransport") \o <<"1">>],
       [service_type |-> Urn("ConnectionManager") \o <<"1">>],
       [service_type |-> Urn("RenderingControl") \o <<"1">>] >>

----------------------------------------------------------------------------
(* get_protocol_info, lines 315-357. Strings are sequences of characters.  *)

\* Most comma-separated entries of a Sink string.
MaxEntries == 2

\* Most colon-delimited fields of one entry.
MaxFields == 4

\* Most device elements of one descriptor.
MaxDevices == 2

\* str.split(sep) for a one-character separator.
RECURSIVE Split(_, _)
Split(str, sep) ==
    IF \A i \in 1..Len(str) : str[i] # sep THEN <<str>>
    ELSE LET i == CHOOSE i \in 1..Len(str) :
                     str[i] = sep /\ \A j \in 1..(i - 1) : str[j] # sep
         IN  <<SubSeq(str, 1, i - 1)>> \o Split(SubSeq(str, i + 1, Len(str)), sep)

\* str.strip().
RECURSIVE Strip(_)
Strip(str) ==
    IF str = <<>> THEN str
    ELSE IF Head(str) = " " THEN Strip(Tail(str))
    ELSE IF str[Len(str)] = " " THEN Strip(SubSeq(str, 1, Len(str) - 1))
    ELSE str

\* sep.join(parts).
RECURSIVE Join(_, _)
Join(parts, sep) ==
    IF parts = <<>> THEN <<>>
    ELSE IF Len(parts) = 1 THEN parts[1]
    ELSE parts[1] \o sep \o Join(Tail(parts), sep)

\* The loop as it would be if three fields were enough for an entry.
RECURSIVE SinkMimeTypes_three_fields(_)
SinkMimeTypes_three_fields(sinks) ==
    IF sinks = <<>> THEN <<>>
    ELSE LET attributes == Split(Strip(Head(sinks)), ":")
         IN  (IF Len(attributes) >= 3 THEN <<attributes[3]>> ELSE <<>>)
             \o SinkMimeTypes_three_fields(Tail(sinks))

\* Lines 340-343: the arguments of add_mime_type, in call order.
RECURSIVE SinkMimeTypes(_)
SinkMimeTypes(sinks) ==
    IF sinks = <<>> THEN <<>>
    ELSE LET attributes == Split(Strip(Head(sinks)), ":")
         IN  (IF Len(attributes) >= 4 THEN <<attributes[3]>> ELSE <<>>)
             \o SinkMimeTypes(Tail(sinks))

\* BaseRenderer.add_mime_type: the codec of a mime type joins the list once.
add_mime_type(cd, mime_type) ==
    IF \E i \in 1..Len(cd) : cd[i] = mime_type THEN cd ELSE Append(cd, mime_type)

RECURSIVE AddMimeTypes(_, _)
AddMimeTypes(cd, list) ==
    IF list = <<>> THEN cd
    ELSE AddMimeTypes(add_mime_type(cd, Head(list)), Tail(list))

\* BaseRenderer.prioritize_codecs: the codecs in the order of their priority.
Priority(mime_type) ==
    CASE mime_type = <<"w">> -> 1
      [] mime_type = <<"m">> -> 2
      [] OTHER -> 3

prioritize_codecs(cd) ==
    SortSeq(cd, LAMBDA a, b : Priority(a) < Priority(b))

\* The call with the request ended in o, entered with codec list cd.
get_protocol_info(cd, o) ==
    LET unparsable == o.body \in {"malformed"}
        unusable == o.body \in {"nosink", "emptysink"}
        list == SinkMimeTypes(Split(o.sink, ","))
        ok == o.kind = "answer" /\ o.status = 200
        ret == CASE o.kind = "refused" -> ConnectionError
                 [] o.kind = "timeout" -> Ret(408)
                 [] o.status # 200 -> RetNone
                 [] unparsable \/ unusable -> Ret(400)
                 [] OTHER -> Ret(o.status)
        lg == (IF o.kind = "timeout" THEN <<ErrorEntry("PROTOCOL_INFO")>> ELSE <<>>)
              \o (IF ok /\ ~unparsable /\ o.body # "nosink"
                  THEN <<PlainEntry("debug", "Got the following mime types")>>
                  ELSE <<>>)
              \o (IF ok /\ (unparsable \/ unusable)
                  THEN <<ErrorEntry("No valid XML")>> ELSE <<>>)
              \o <<_debug("get_protocol_info", o)>>
    IN  [codecs |-> CASE ~ok \/ unparsable -> cd
                      [] unusable -> <<>>
                      [] OTHER -> prioritize_codecs(AddMimeTypes(<<>>, list)),
         mimes |-> IF ok /\ ~unparsable /\ ~unusable THEN list ELSE <<>>,
         ret |-> ret,
         log |-> lg]

\* Sink strings: entries of 1..MaxFields one-character fields, the protocol
\* in the first, "*" or a mime type in the second, a mime type in the third,
\* "*" in the others, joined by "," or by ", ".
EntryFields(n) ==
    { f \in [1..n -> {<<"h">>, <<"m">>, <<"w">>, <<"*">>}] :
        \A i \in 1..n : CASE i = 1 -> f[i] = <<"h">>
                          [] i = 2 -> f[i] \in {<<"*">>, <<"m">>}
                          [] i = 3 -> f[i] \in {<<"m">>, <<"w">>}
                          [] OTHER -> f[i] = <<"*">> }

Entries == { Join(f, <<":">>) : f \in UNION { EntryFields(n) : n \in 1..MaxFields } }

Sinks ==
    UNION { { Join(e, sep) : e \in [1..n -> Entries] } :
            <<n, sep>> \in (1..MaxEntries) \X {<<",">>, <<",", " ">>} }

\* The Sink strings of the transport specification: the two of section 8.
Chars(fields) == Join([i \in 1..Len(fields) |-> <<fields[i]>>], <<":">>)

ExampleSinks ==
    { Chars(<<"h", "*", "m", "*">>) \o <<",">> \o Chars(<<"h", "*", "w", "*">>),
      Chars(<<"h", "*">>) }

\* What a GetProtocolInfo request can end in, with the Sink strings of S.
ProtocolOutcomes(S) ==
    {AnswerSink(k) : k \in S}
    \cup {Answer(200, b) : b \in {"malformed", "nosink", "emptysink"}}
    \cup {Answer(s, "fault") : s \in Statuses \ {200}}
    \cup Failures

----------------------------------------------------------------------------
(* UpnpService.control_url and event_url, lines 81-124.                    *)

\* Addresses a Device is found at.
Ips == {"10.0.0.1", "10.0.0.2"}
Ports == {"8080", "49152"}

Address(ip, port) == [ip |-> ip, port |-> port]

\* The controlURL / eventSubURL texts of a descriptor: an absolute path, a
\* relative path, or a whole url of another host.
AbsolutePath(segment) == [form |-> "path", netloc |-> <<>>, path |-> <<"", segment>>]
RelativePath(segment) == [form |-> "relative", netloc |-> <<>>, path |-> <<segment>>]
WholeUrl(ip, port, segment) ==
    [form |-> "url", netloc |-> <<ip, port>>, path |-> <<"", segment>>]

UrlTexts(segment) ==
    {AbsolutePath(segment), RelativePath(segment), WholeUrl("10.0.0.9", "80", segment)}

\* 'http://{ip}:{port}'.format(...), lines 112-115: a url with no path.
HostUrl(ip, port) == [form |-> "url", netloc |-> <<ip, port>>, path |-> <<>>]

\* urlparse.urljoin(base, text): a whole url stands as it is; a path takes
\* the place of the base's path, a relative one from the base's directory.
urljoin(base, text) ==
    CASE text.form = "url" -> text
      [] text.form = "path" ->
            [form |-> "url", netloc |-> base.netloc, path |-> text.path]
      [] OTHER ->
            [form |-> "url", netloc |-> base.netloc,
             path |-> (IF base.path = <<>> THEN <<"">>
                       ELSE SubSeq(base.path, 1, Len(base.path) - 1)) \o text.path]

\* The part of UpnpService.__init__ that keeps the address: lines 83-84, 99-100.
ServiceAddress(ip, port, service) ==
    [ip |-> ip, port |-> port,
     _control_url |-> service.control_url,
     _event_url |-> service.eventsub_url]

control_url(service) == urljoin(HostUrl(service.ip, service.port), service._control_url)

event_url(service) == urljoin(HostUrl(service.ip, service.port), service._event_url)

Kinds == {"transport", "connection", "rendering"}

\* The three UpnpService objects UpnpMediaRenderer.__init__ makes: line 149
\* hands every one the ip and port of the constructor call.
MakeEndpoints(ip, port, texts) ==
    [k \in Kinds |-> ServiceAddress(ip, port, texts[k])]

\* The url texts of a descriptor, one controlURL and eventSubURL per service.
DescriptorTexts ==
    { [k \in Kinds |->
          [control_url |-> (IF k = "transport" THEN c ELSE AbsolutePath("control")),
           eventsub_url |-> (IF k = "transport" THEN e ELSE RelativePath("event"))]] :
        c \in UrlTexts("control"), e \in UrlTexts("event") }

NoAccess ==
    [kind |-> "none", property |-> "none", url |-> HostUrl("", ""),
     at |-> Address("", "")]

\* Outside the address specification the Device stays where it was found.
AddressAtRest ==
    /\ address = Address("10.0.0.1", "8080")
    /\ endpoints = MakeEndpoints("10.0.0.1", "8080",
                       [k \in Kinds |-> [control_url |-> AbsolutePath("control"),
                                         eventsub_url |-> AbsolutePath("event")]])
    /\ accessed = NoAccess

----------------------------------------------------------------------------
(* UpnpContentFlags and UpnpContentFeatures, lines 36-72.                  *)

SENDER_PACED == 80000000
LSOP_TIME_BASED_SEEK_SUPPORTED == 40000000
LSOP_BYTE_BASED_SEEK_SUPPORTED == 20000000
PLAY_CONTAINER_SUPPORTED == 10000000
S0_INCREASING_SUPPORTED == 8000000
SN_INCREASING_SUPPORTED == 4000000
RTSP_PAUSE_SUPPORTED == 2000000
STREAMING_TRANSFER_MODE_SUPPORTED == 1000000
INTERACTIVE_TRANSFER_MODE_SUPPORTED == 800000
BACKGROUND_TRANSFER_MODE_SUPPORTED == 400000
CONNECTION_STALLING_SUPPORTED == 200000
DLNA_VERSION_15_SUPPORTED == 100000

ContentFlags ==
    {SENDER_PACED, LSOP_TIME_BASED_SEEK_SUPPORTED,
     LSOP_BYTE_BASED_SEEK_SUPPORTED, PLAY_CONTAINER_SUPPORTED,
     S0_INCREASING_SUPPORTED, SN_INCREASING_SUPPORTED, RTSP_PAUSE_SUPPORTED,
     STREAMING_TRANSFER_MODE_SUPPORTED, INTERACTIVE_TRANSFER_MODE_SUPPORTED,
     BACKGROUND_TRANSFER_MODE_SUPPORTED, CONNECTION_STALLING_SUPPORTED,
     DLNA_VERSION_15_SUPPORTED}

\* sum(self.flags), line 55.
RECURSIVE sum(_)
sum(flags) ==
    IF flags = {} THEN 0
    ELSE LET c == CHOOSE x \in flags : TRUE IN c + sum(flags \ {c})

DigitChars == <<"0", "1", "2", "3", "4", "5", "6", "7", "8", "9">>

\* str(n) of a natural number: its decimal digits, most significant first.
RECURSIVE str_int(_)
str_int(n) ==
    IF n < 10 THEN <<DigitChars[n + 1]>>
    ELSE str_int(n \div 10) \o <<DigitChars[(n % 10) + 1]>>

\* '0' * n.
Zeros(n) == [i \in 1..n |-> "0"]

\* s.zfill(width): pads on the left, and never cuts.
zfill(s, width) ==
    IF Len(s) >= width THEN s ELSE Zeros(width - Len(s)) \o s

\* UpnpContentFlags.__str__, line 55.
UpnpContentFlags_str(flags) == zfill(str_int(sum(flags)), 8)

\* UpnpContentFeatures.__init__, lines 60-65: the three fields are set to
\* False whatever the arguments are.
UpnpContentFeatures(support_time_seek, support_range, transcoded, flags) ==
    [support_time_seek |-> FALSE,
     support_range |-> FALSE,
     is_transcoded |-> FALSE,
     flags |-> flags]

\* '1' if b else '0'.
Bit(b) == IF b THEN "1" ELSE "0"

\* UpnpContentFeatures.__str__, lines 67-72: the three fields of the text
\* DLNA.ORG_OP=<op>;DLNA.ORG_CI=<ci>;DLNA.ORG_FLAGS=<flags>.
UpnpContentFeatures_str(self) ==
    [op |-> <<Bit(self.support_time_seek), Bit(self.support_range)>>,
     ci |-> Bit(self.is_transcoded),
     flags |-> UpnpContentFlags_str(self.flags) \o Zeros(24)]

\* The arguments of a construction.
FeatureArgs ==
    [support_time_seek : BOOLEAN, support_range : BOOLEAN,
     transcoded : BOOLEAN, flags : SUBSET ContentFlags]

NoText == [op |-> <<>>, ci |-> "", flags |-> <<>>]

----------------------------------------------------------------------------
(* UpnpMediaRendererFactory.from_url, lines 488-559.                       *)

ST_HEADERS ==
    {"urn:schemas-upnp-org:device:MediaRenderer:1",
     "urn:schemas-upnp-org:device:MediaRenderer:2"}

\* The text of a deviceType element, or "missing" when there is none.
DeviceTypes ==
    ST_HEADERS \cup {"urn:schemas-upnp-org:device:MediaServer:1", "missing"}

\* A device element of the descriptor: its deviceType, whether friendlyName
\* and UDN are there, whether each of its service elements has its five
\* children, and its manufacturer ("absent" when there is no such element);
\* at most one of the three is missing.
DeviceElements ==
    { d \in [deviceType : DeviceTypes,
             friendlyName : BOOLEAN,
             UDN : BOOLEAN,
             services : {"complete", "incomplete"},
             manufacturer : {"absent", "Yamaha Corporation"}] :
        Cardinality({x \in {"friendlyName", "UDN"} : ~d[x]})
            + (IF d.services = "incomplete" THEN 1 ELSE 0) <= 1 }

\* The netloc of the descriptor url, split at ':'.
Netlocs == {<<"10.0.0.1", "8080">>, <<"10.0.0.1">>}

\* The outcomes of requests.get(url, timeout=5): the descriptor is a list of
\* device elements in document order, or is not XML.
Descriptors ==
    UNION { [1..n -> DeviceElements] : n \in 0..MaxDevices }
FetchOutcomes ==
    {[kind |-> "timeout", xml |-> FALSE, devices |-> <<>>],
     [kind |-> "refused", xml |-> FALSE, devices |-> <<>>],
     [kind |-> "answer", xml |-> FALSE, devices |-> <<>>]}
    \cup { [kind |-> "answer", xml |-> TRUE, devices |-> ds] : ds \in Descriptors }

MadeNone == [k |-> "None", ip |-> "", port |-> "", element |-> 0, workarounds |-> <<>>]
MadeRaise(exc) == [k |-> exc, ip |-> "", port |-> "", element |-> 0, workarounds |-> <<>>]
MadeDevice(ip, port, i, w) ==
    [k |-> "device", ip |-> ip, port |-> port, element |-> i, workarounds |-> w]

\* The loop of lines 516-556 from the i-th device element on: any failure is
\* caught by the bare except of line 557, and the end of the loop falls off
\* the function.
RECURSIVE ScanDevices(_, _, _, _)
ScanDevices(devices, i, ip, port) ==
    IF i > Len(devices) THEN MadeNone
    ELSE LET d == devices[i]
         IN  CASE d.deviceType = "missing" -> MadeNone
               [] d.deviceType # "missing" /\ d.deviceType \notin ST_HEADERS ->
                     ScanDevices(devices, i + 1, ip, port)
               [] OTHER ->
                     IF d.services = "incomplete" \/ ~d.friendlyName \/ ~d.UDN
                     THEN MadeNone
                     ELSE MadeDevice(ip, port, i,
                                     IF d.manufacturer = "Yamaha Corporation"
                                     THEN <<"YamahaWorkaround">> ELSE <<>>)

\* from_url(url) with the fetch ended in o.
from_url(netloc, o) ==
    CASE o.kind \in {"timeout", "refused"} -> MadeNone
      [] o.kind = "answer" /\ Len(netloc) # 2 -> MadeRaise("ValueError")
      [] o.kind = "answer" /\ Len(netloc) = 2 /\ ~o.xml -> MadeNone
      [] OTHER -> ScanDevices(o.devices, 1, netloc[1], netloc[2])

----------------------------------------------------------------------------
(* The variables of the specifications other than the one at hand.         *)

NoFeatures == [made |-> FALSE]
NoFetch == [url |-> "none"]
NotMade == [k |-> "none"]

OthersAtRest ==
    /\ features = NoFeatures
    /\ fetch = NoFetch
    /\ made = NotMade

----------------------------------------------------------------------------
(* The transport controller.                                               *)

RaisedBy(ret) == IF ret.k = "raise" THEN ret.s ELSE "none"

\* The request whose handling last changed self.state: the call it was sent
\* in, its action and what it ended in. The assignments are those of lines
\* 222, 224, 379, 410 and 442, each right after its request.
NoChange == [op |-> "none", action |-> "none", out |-> Timeout]

LastChange(name, st, rq) ==
    IF st = state THEN changed
    ELSE [op |-> name, action |-> rq[Len(rq)].action, out |-> rq[Len(rq)].out]

\* The end of a public call: what it leaves behind.
Return(name, st, ret, rq, lg, hk, exc) ==
    /\ op' = name
    /\ changed' = LastChange(name, st, rq)
    /\ pc' = "ready"
    /\ state' = st
    /\ result' = ret
    /\ reqs' = rq
    /\ log' = lg
    /\ hooks' = hk
    /\ raised' = exc

\* The entry of a public call made on its own.
Enter ==
    /\ pc = "ready"
    /\ pre' = state
    /\ pre_codecs' = codecs
    /\ elapsed' = 0
    /\ upd' = "none"

Init ==
    /\ state = IDLE
    /\ codecs = <<>>
    /\ op = "none"
    /\ pc = "ready"
    /\ result = Running
    /\ reqs = <<>>
    /\ log = <<>>
    /\ hooks = <<>>
    /\ pre = IDLE
    /\ pre_codecs = <<>>
    /\ mimes = <<>>
    /\ elapsed = 0
    /\ upd = "none"
    /\ raised = "none"
    /\ changed = NoChange
    /\ services = PlayableServices
    /\ device = UpnpMediaRenderer(PlayableServices)
    /\ valid = validate(UpnpMediaRenderer(PlayableServices))
    /\ AddressAtRest
    /\ OthersAtRest

CallPlay ==
    /\ Enter
    /\ \E o \in SimpleOutcomes :
          LET e == play(state, o)
          IN  Return("play", e.state, e.ret, <<Req("Play", o)>>, e.log, e.hooks,
                     RaisedBy(e.ret))
    /\ mimes' = <<>>
    /\ UNCHANGED <<codecs, device_vars, address_vars, other_vars>>

CallStop ==
    /\ Enter
    /\ \E o \in SimpleOutcomes :
          LET e == stop(state, o)
          IN  Return("stop", e.state, e.ret, <<Req("Stop", o)>>, e.log, e.hooks,
                     RaisedBy(e.ret))
    /\ mimes' = <<>>
    /\ UNCHANGED <<codecs, device_vars, address_vars, other_vars>>

CallPause ==
    /\ Enter
    /\ \E o \in SimpleOutcomes :
          LET e == pause(state, o)
          IN  Return("pause", e.state, e.ret, <<Req("Pause", o)>>, e.log, e.hooks,
                     RaisedBy(e.ret))
    /\ mimes' = <<>>
    /\ UNCHANGED <<codecs, device_vars, address_vars, other_vars>>

CallRegister ==
    /\ Enter
    /\ \E codec_given \in BOOLEAN, encoder \in BOOLEAN, o \in SimpleOutcomes :
          LET prepared == register_prepare(codec_given, encoder)
              e == register(state, o)
          IN  IF prepared # "ok"
              THEN Return("register", state, Raise(prepared), <<>>, <<>>,
                          <<"_before_register">>, prepared)
              ELSE Return("register", e.state, e.ret,
                          <<Req("SetAVTransportURI", o)>>, e.log, e.hooks,
                          RaisedBy(e.ret))
    /\ mimes' = <<>>
    /\ UNCHANGED <<codecs, device_vars, address_vars, other_vars>>

CallGetTransportInfo ==
    /\ Enter
    /\ \E o \in TransportOutcomes :
          LET e == get_transport_info(state, o)
          IN  Return("get_transport_info", e.state, e.ret,
                     <<Req("GetTransportInfo", o)>>, e.log, e.hooks, RaisedBy(e.ret))
    /\ mimes' = <<>>
    /\ UNCHANGED <<codecs, device_vars, address_vars, other_vars>>

\* get_protocol_info() with its request ended in o.
ProtocolInfoCall(o) ==
    LET e == get_protocol_info(codecs, o)
    IN  /\ Return("get_protocol_info", state, e.ret,
                  <<Req("GetProtocolInfo", o)>>, e.log, <<>>, RaisedBy(e.ret))
        /\ codecs' = e.codecs
        /\ mimes' = e.mimes
        /\ UNCHANGED <<device_vars, address_vars, other_vars>>

CallGetProtocolInfo ==
    /\ Enter
    /\ \E o \in ProtocolOutcomes(ExampleSinks) : ProtocolInfoCall(o)

----------------------------------------------------------------------------
(* CoinedUpnpMediaRenderer.play, lines 455-485, one request per step.      *)

\* Line 457: url or self.get_stream_url(); the stream url needs an encoder.
get_stream_url(url_given, encoder) ==
    IF url_given \/ encoder THEN "ok" ELSE "NoSuitableEncoderFoundException"

\* The log entry of the branch taken after _update_current_state.
AfterUpdateLog(next) ==
    CASE next = "play_stopped" ->
            <<PlainEntry("info", "Device state is stopped. Sending play command.")>>
      [] next = "return" ->
            <<PlainEntry("info", "Device state is playing.")>>
      [] next = "play_fallback" ->
            <<PlainEntry("warning", "Updating device state unsuccessful!")>>
      [] OTHER -> <<>>

\* A step of the call that goes on to position next.
Continue(next, st, rq, lg, hk) ==
    /\ op' = "coined_play"
    /\ changed' = LastChange("coined_play", st, rq)
    /\ pc' = next
    /\ state' = st
    /\ result' = Running
    /\ reqs' = rq
    /\ log' = lg
    /\ hooks' = hk
    /\ raised' = "none"

\* A step at which the call returns value ret or catches exception exc.
Finish(st, ret, rq, lg, hk) ==
    IF ret.k = "raise"
    THEN Return("coined_play", st, Caught(ret.s), rq, lg \o CaughtLog(ret.s), hk, ret.s)
    ELSE Return("coined_play", st, ret, rq, lg, hk, "none")

\* Entry, up to the first request: lines 457 and 231-265.
CoinedPlayBegin ==
    /\ Enter
    /\ \E url_given \in BOOLEAN, codec_given \in BOOLEAN, encoder \in BOOLEAN :
          LET stream_url == get_stream_url(url_given, encoder)
              prepared == register_prepare(codec_given, encoder)
          IN  CASE stream_url # "ok" ->
                      Finish(state, Raise(stream_url), <<>>, <<>>, <<>>)
                [] stream_url = "ok" /\ prepared # "ok" ->
                      Finish(state, Raise(prepared), <<>>, <<>>, <<"_before_register">>)
                [] OTHER ->
                      Continue("register", state, <<>>, <<>>, <<>>)
    /\ mimes' = <<>>
    /\ UNCHANGED <<codecs, device_vars, address_vars, other_vars>>

\* Where the call stands once _update_current_state has returned u.
Updated(u, st, rq, lg, hk) ==
    LET next == AfterUpdate(u, st)
    IN  CASE next = "play" ->
                Continue("play", st, rq,
                         lg \o AfterUpdateLog(IF u = "True" THEN "play_stopped"
                                              ELSE "play_fallback"), hk)
          [] next = "return" ->
                Finish(st, Ret(200), rq, lg \o AfterUpdateLog("return"), hk)
          [] OTHER ->
                Finish(st, RetNone, rq, lg, hk)

\* The SetAVTransportURI request and what follows it up to the first poll.
CoinedPlayRegister ==
    /\ pc = "register"
    /\ \E o \in SimpleOutcomes :
          LET e == register(state, o)
              rq == Append(reqs, Req("SetAVTransportURI", o))
              lg == log \o e.log
              hk == hooks \o e.hooks
          IN  CASE e.ret.k = "raise" ->
                      Finish(e.state, e.ret, rq, lg, hk) /\ UNCHANGED upd
                [] e.ret.k # "raise" /\ AfterRegister(e.ret) = "return" ->
                      /\ Finish(e.state, e.ret, rq,
                                lg \o <<PlainEntry("error", "registering failed!")>>, hk)
                      /\ UNCHANGED upd
                [] OTHER ->
                      IF BeforeDeadline(0)
                      THEN Continue("poll", e.state, rq, lg, hk) /\ UNCHANGED upd
                      ELSE Updated("False", e.state, rq, lg, hk) /\ upd' = "False"
    /\ elapsed' = 0
    /\ UNCHANGED <<codecs, pre, pre_codecs, mimes, device_vars, address_vars, other_vars>>

\* Seconds a poll that ends in o may block.
PollDelays(o) ==
    CASE o.kind = "timeout" -> {REQUEST_TIMEOUT}
      [] o.kind = "refused" -> {0}
      [] OTHER -> 0..MaxPollDelay

\* One iteration of _update_current_state up to time.sleep(1): lines 217-225.
CoinedPlayPoll ==
    /\ pc = "poll"
    /\ \E o \in TransportOutcomes :
          \E d \in PollDelays(o) :
              LET e == get_transport_info(state, o)
                  rq == Append(reqs, Req("GetTransportInfo", o))
                  lg == log \o e.log
                  u == update_current_state(e.state, e.ret)
              IN  /\ elapsed' = elapsed + d
                  /\ CASE e.ret.k = "raise" ->
                            Finish(e.state, e.ret, rq, lg, hooks) /\ UNCHANGED upd
                       [] e.ret.k # "raise" /\ u.next = "sleep" ->
                            Continue("sleep", u.state, rq, lg, hooks) /\ UNCHANGED upd
                       [] OTHER ->
                            Updated(u.next, u.state, rq, lg, hooks) /\ upd' = u.next
    /\ UNCHANGED <<codecs, pre, pre_codecs, mimes, device_vars, address_vars, other_vars>>

\* time.sleep(1) and the next evaluation of the loop condition: lines 226, 216.
CoinedPlaySleep ==
    /\ pc = "sleep"
    /\ elapsed' = elapsed + 1
    /\ IF BeforeDeadline(elapsed + 1)
       THEN Continue("poll", state, reqs, log, hooks) /\ UNCHANGED upd
       ELSE Updated("False", state, reqs, log, hooks) /\ upd' = "False"
    /\ UNCHANGED <<codecs, pre, pre_codecs, mimes, device_vars, address_vars, other_vars>>

\* UpnpMediaRenderer.play(self) of lines 466 and 476.
CoinedPlayPlay ==
    /\ pc = "play"
    /\ \E o \in SimpleOutcomes :
          LET e == play(state, o)
          IN  Finish(e.state, e.ret, Append(reqs, Req("Play", o)),
                     log \o e.log, hooks \o e.hooks)
    /\ UNCHANGED <<codecs, pre, pre_codecs, mimes, elapsed, upd, device_vars, address_vars, other_vars>>

Next ==
    \/ CallPlay
    \/ CallStop
    \/ CallPause
    \/ CallRegister
    \/ CallGetTransportInfo
    \/ CallGetProtocolInfo
    \/ CoinedPlayBegin
    \/ CoinedPlayRegister
    \/ CoinedPlayPoll
    \/ CoinedPlaySleep
    \/ CoinedPlayPlay

Spec == Init /\ [][Next]_vars

----------------------------------------------------------------------------
(* get_protocol_info over every Sink string of the bounds: one call, on a  *)
(* Device whose codec list is empty or was set by an earlier call, with    *)
(* the outcome of its request drawn beforehand.                            *)

\* The codec lists a Device holds between two calls.
CodecLists ==
    { prioritize_codecs(AddMimeTypes(<<>>, SinkMimeTypes(Split(k, ",")))) :
        k \in ExampleSinks }

InitProtocol ==
    /\ state = IDLE
    /\ codecs \in CodecLists
    /\ op = "none"
    /\ pc = "request"
    /\ result = Running
    /\ \E o \in ProtocolOutcomes(Sinks) : reqs = <<Req("GetProtocolInfo", o)>>
    /\ log = <<>>
    /\ hooks = <<>>
    /\ pre = IDLE
    /\ pre_codecs = <<>>
    /\ mimes = <<>>
    /\ elapsed = 0
    /\ upd = "none"
    /\ raised = "none"
    /\ changed = NoChange
    /\ services = PlayableServices
    /\ device = UpnpMediaRenderer(PlayableServices)
    /\ valid = validate(UpnpMediaRenderer(PlayableServices))
    /\ AddressAtRest
    /\ OthersAtRest

ProtocolInfo ==
    /\ pc = "request"
    /\ pre' = state
    /\ pre_codecs' = codecs
    /\ UNCHANGED <<elapsed, upd>>
    /\ ProtocolInfoCall(reqs[1].out)

SpecProtocol == InitProtocol /\ [][ProtocolInfo]_vars

----------------------------------------------------------------------------
(* Construction and validation of a Device.                                *)

InitDevice ==
    /\ state = IDLE
    /\ codecs = <<>>
    /\ op = "none"
    /\ pc = "new"
    /\ result = Running
    /\ reqs = <<>>
    /\ log = <<>>
    /\ hooks = <<>>
    /\ pre = IDLE
    /\ pre_codecs = <<>>
    /\ mimes = <<>>
    /\ elapsed = 0
    /\ upd = "none"
    /\ raised = "none"
    /\ changed = NoChange
    /\ services \in ServiceLists
    /\ device = NoDevice
    /\ valid = NotValidated
    /\ AddressAtRest
    /\ OthersAtRest

\* UpnpMediaRenderer.__init__ on the services list.
Construct ==
    /\ pc = "new"
    /\ pc' = "constructed"
    /\ op' = "__init__"
    /\ device' = UpnpMediaRenderer(services)
    /\ UNCHANGED <<state, changed, codecs, result, reqs, log, hooks, pre, pre_codecs,
                   mimes, elapsed, upd, raised, services, valid,
                   address_vars, other_vars>>

Validate ==
    /\ pc = "constructed"
    /\ op' = "validate"
    /\ valid' = validate(device)
    /\ UNCHANGED <<state, changed, codecs, pc, result, reqs, log, hooks, pre, pre_codecs,
                   mimes, elapsed, upd, raised, services, device,
                   address_vars, other_vars>>

NextDevice == Construct \/ Validate

SpecDevice == InitDevice /\ [][NextDevice]_vars

----------------------------------------------------------------------------
(* A Device whose address changes after construction.                      *)

InitAddress ==
    /\ state = IDLE
    /\ codecs = <<>>
    /\ op = "__init__"
    /\ pc = "address"
    /\ result = Running
    /\ reqs = <<>>
    /\ log = <<>>
    /\ hooks = <<>>
    /\ pre = IDLE
    /\ pre_codecs = <<>>
    /\ mimes = <<>>
    /\ elapsed = 0
    /\ upd = "none"
    /\ raised = "none"
    /\ changed = NoChange
    /\ services = PlayableServices
    /\ device = UpnpMediaRenderer(PlayableServices)
    /\ valid = validate(UpnpMediaRenderer(PlayableServices))
    /\ \E ip \in Ips, port \in Ports, texts \in DescriptorTexts :
          /\ address = Address(ip, port)
          /\ endpoints = MakeEndpoints(ip, port, texts)
    /\ accessed = NoAccess
    /\ OthersAtRest

address_rest ==
    <<state, changed, codecs, pc, result, reqs, log, hooks, pre, pre_codecs, mimes,
      elapsed, upd, raised, device_vars, other_vars>>

\* device.ip = ip: an assignment to the attribute of line 138.
SetIp ==
    /\ pc = "address"
    /\ \E ip \in Ips \ {address.ip} : address' = [address EXCEPT !.ip = ip]
    /\ op' = "set_ip"
    /\ UNCHANGED <<endpoints, accessed, address_rest>>

\* device.port = port: an assignment to the attribute of line 139.
SetPort ==
    /\ pc = "address"
    /\ \E port \in Ports \ {address.port} : address' = [address EXCEPT !.port = port]
    /\ op' = "set_port"
    /\ UNCHANGED <<endpoints, accessed, address_rest>>

\* A read of service.control_url, as the action calls make at their entry.
ReadControlUrl ==
    /\ pc = "address"
    /\ \E k \in Kinds :
          accessed' = [kind |-> k, property |-> "control_url",
                       url |-> control_url(endpoints[k]), at |-> address]
    /\ op' = "control_url"
    /\ UNCHANGED <<address, endpoints, address_rest>>

\* A read of service.event_url.
ReadEventUrl ==
    /\ pc = "address"
    /\ \E k \in Kinds :
          accessed' = [kind |-> k, property |-> "event_url",
                       url |-> event_url(endpoints[k]), at |-> address]
    /\ op' = "event_url"
    /\ UNCHANGED <<address, endpoints, address_rest>>

NextAddress == SetIp \/ SetPort \/ ReadControlUrl \/ ReadEventUrl

SpecAddress == InitAddress /\ [][NextAddress]_vars

----------------------------------------------------------------------------
(* UpnpContentFeatures: one construction and one rendering.                *)

InitFeatures ==
    /\ state = IDLE
    /\ codecs = <<>>
    /\ op = "none"
    /\ pc = "features"
    /\ result = Running
    /\ reqs = <<>>
    /\ log = <<>>
    /\ hooks = <<>>
    /\ pre = IDLE
    /\ pre_codecs = <<>>
    /\ mimes = <<>>
    /\ elapsed = 0
    /\ upd = "none"
    /\ raised = "none"
    /\ changed = NoChange
    /\ services = PlayableServices
    /\ device = UpnpMediaRenderer(PlayableServices)
    /\ valid = validate(UpnpMediaRenderer(PlayableServices))
    /\ AddressAtRest
    /\ OthersAtRest

features_rest ==
    <<state, changed, codecs, result, reqs, log, hooks, pre, pre_codecs, mimes,
      elapsed, upd, raised, device_vars, address_vars, fetch, made>>

\* UpnpContentFeatures(support_time_seek, support_range, transcoded, flags).
NewFeatures ==
    /\ pc = "features"
    /\ \E a \in FeatureArgs :
          features' = [made |-> TRUE,
                       args |-> a,
                       self |-> UpnpContentFeatures(a.support_time_seek,
                                                    a.support_range,
                                                    a.transcoded, a.flags),
                       text |-> NoText]
    /\ pc' = "made"
    /\ op' = "UpnpContentFeatures"
    /\ UNCHANGED features_rest

\* str(content_features).
StrFeatures ==
    /\ pc = "made"
    /\ features' = [features EXCEPT !.text = UpnpContentFeatures_str(features.self)]
    /\ pc' = "str"
    /\ op' = "__str__"
    /\ UNCHANGED features_rest

NextFeatures == NewFeatures \/ StrFeatures

SpecFeatures == InitFeatures /\ [][NextFeatures]_vars

----------------------------------------------------------------------------
(* from_url over every descriptor of the bounds: one call, with the url    *)
(* and the outcome of its fetch drawn beforehand.                          *)

InitFactory ==
    /\ state = IDLE
    /\ codecs = <<>>
    /\ op = "none"
    /\ pc = "fetch"
    /\ result = Running
    /\ reqs = <<>>
    /\ log = <<>>
    /\ hooks = <<>>
    /\ pre = IDLE
    /\ pre_codecs = <<>>
    /\ mimes = <<>>
    /\ elapsed = 0
    /\ upd = "none"
    /\ raised = "none"
    /\ changed = NoChange
    /\ services = PlayableServices
    /\ device = NoDevice
    /\ valid = NotValidated
    /\ AddressAtRest
    /\ features = NoFeatures
    /\ \E netloc \in Netlocs, o \in FetchOutcomes :
          fetch = [url |-> "http", netloc |-> netloc, out |-> o]
    /\ made = NotMade

FromUrl ==
    /\ pc = "fetch"
    /\ pc' = "made"
    /\ op' = "from_url"
    /\ made' = from_url(fetch.netloc, fetch.out)
    /\ raised' = (IF from_url(fetch.netloc, fetch.out).k \in {"device", "None"}
                  THEN "none" ELSE from_url(fetch.netloc, fetch.out).k)
    /\ UNCHANGED <<state, changed, codecs, result, reqs, log, hooks, pre, pre_codecs,
                   mimes, elapsed, upd, device_vars, address_vars, features,
                   fetch>>

SpecFactory == InitFactory /\ [][FromUrl]_vars

----------------------------------------------------------------------------
(* Properties.                                                             *)

Done(name) == pc = "ready" /\ op = name

\* The positions in reqs of the requests of one action.
Sent(action) == { i \in 1..Len(reqs) : reqs[i].action = action }

Got200(o) == o.kind = "answer" /\ o.status = 200

\* What the state is to be after a 200 answer to each low-level call.
Target(name) ==
    CASE name = "play" -> PLAYING
      [] name = "stop" -> IDLE
      [] name = "pause" -> PAUSE

\* C1: after a low-level play(), stop() or pause() entered in any state, a 200
\* answer leaves the state Playing, Idle or Paused; any other answer returns
\* its status and a timeout returns 408, both with the state as at entry.
C1_LowLevelCalls ==
    \A name \in {"play", "stop", "pause"} :
        Done(name) =>
            LET o == reqs[1].out
            IN  /\ Got200(o) => state = Target(name) /\ result = Ret(200)
                /\ o.kind = "answer" /\ o.status # 200 =>
                      result = Ret(o.status) /\ state = pre
                /\ o.kind = "timeout" => result = Ret(408) /\ state = pre

\* C1 witness: a pause() entered in Stopped that timed out.
C1_Witness ==
    /\ Done("pause")
    /\ pre = STOP
    /\ reqs[1].out = Timeout
    /\ state = STOP

\* C1 witness of the other half: a stop() entered in Stopped, answered 200.
C1_StopFromStopped ==
    Done("stop") /\ pre = STOP /\ Got200(reqs[1].out) /\ state = IDLE

\* C2: in the high-level play, a registration that returns a status other
\* than 200 (408 on timeout) ends the call with that status: no poll and no
\* Play request is ever sent.
C2_RegistrationFailure ==
    (op = "coined_play" /\ Len(reqs) >= 1
        /\ reqs[1].out.kind # "refused" /\ ~Got200(reqs[1].out)) =>
            /\ pc = "ready"
            /\ Len(reqs) = 1
            /\ reqs[1].action = "SetAVTransportURI"
            /\ result = (IF reqs[1].out.kind = "timeout" THEN Ret(408)
                         ELSE Ret(reqs[1].out.status))

\* C2 witness: a high-level play whose registration timed out.
C2_Witness ==
    /\ Done("coined_play")
    /\ reqs = <<Req("SetAVTransportURI", Timeout)>>
    /\ result = Ret(408)

\* The body of the last poll's answer.
LastPollBody ==
    LET polls == Sent("GetTransportInfo")
    IN  IF polls = {} THEN "none"
        ELSE reqs[CHOOSE i \in polls : \A j \in polls : j <= i].out.body

\* The value of the call when its last request is a Play.
PlayStatus ==
    LET o == reqs[Len(reqs)].out
    IN  CASE o.kind = "answer" -> Ret(o.status)
          [] o.kind = "timeout" -> Ret(408)
          [] OTHER -> Ret(404)

\* C3: after a registration answered 200 the requests are SetAVTransportURI,
\* then polls, then at most one Play, the last request. Reconciled to Stopped,
\* or failed to reconcile: exactly one Play, whose status is returned.
\* Reconciled to Playing: no Play, and 200 is returned.
C3_Ordering ==
    op = "coined_play" =>
        /\ Sent("SetAVTransportURI") = (IF reqs = <<>> THEN {} ELSE {1})
        /\ \A i \in Sent("Play") : i = Len(reqs) /\ pc = "ready"
        /\ \A i \in 1..Len(reqs) :
              reqs[i].action \in {"SetAVTransportURI", "GetTransportInfo", "Play"}
        /\ pc = "play" => upd # "none" /\ Sent("GetTransportInfo") # {}
        /\ (pc = "ready" /\ upd = "True" /\ LastPollBody = "STOPPED") =>
              Cardinality(Sent("Play")) = 1 /\ result = PlayStatus
        /\ (pc = "ready" /\ upd = "True" /\ LastPollBody = "PLAYING") =>
              Sent("Play") = {} /\ result = Ret(200)
        /\ (pc = "ready" /\ upd = "False") =>
              Cardinality(Sent("Play")) = 1 /\ result = PlayStatus
        /\ upd # "none" => Got200(reqs[1].out)

\* C3 witness: the deadline elapsed on unrecognized states, and the fallback
\* Play was answered 500.
C3_Witness ==
    /\ Done("coined_play")
    /\ upd = "False"
    /\ LastPollBody = "TRANSITIONING"
    /\ Cardinality(Sent("GetTransportInfo")) >= 2
    /\ reqs[Len(reqs)] = Req("Play", Answer(500, "xml"))
    /\ result = Ret(500)

\* C3 witness of the Stopped branch.
C3_StoppedThenPlay ==
    /\ Done("coined_play")
    /\ upd = "True"
    /\ LastPollBody = "STOPPED"
    /\ result = Ret(200)
    /\ state = PLAYING


\* What a poll's request outcome makes get_transport_info return, by the
\* claim's words: a recognized state, null, or another string.
PollPlaying(o) == o = Answer(200, "PLAYING")
PollStopped(o) == o = Answer(200, "STOPPED")
PollNull(o) ==
    \/ o.kind = "timeout"
    \/ o.kind = "answer" /\ o.status # 200
    \/ o.kind = "answer" /\ o.status = 200 /\ o.body \in {"empty", "missing", "malformed"}
PollOther(o) == o = Answer(200, "TRANSITIONING")

\* C4: _update_current_state ends at the first poll that returns "PLAYING",
\* "STOPPED" or null: it sets Playing or Stopped and returns true, or leaves
\* the state alone and returns false, and polls no more. A poll that returns
\* another string leaves the state alone and is followed by the sleep and the
\* next deadline check only.
C4_FirstDecisivePoll ==
    op = "coined_play" =>
        \A i \in Sent("GetTransportInfo") :
            LET o == reqs[i].out
                last == i = Len(reqs)
            IN  /\ (PollPlaying(o) \/ PollStopped(o) \/ PollNull(o)) =>
                      /\ \A j \in Sent("GetTransportInfo") : j <= i
                      /\ upd = (IF PollNull(o) THEN "False" ELSE "True")
                      /\ last => /\ pc \in {"play", "ready"}
                                 /\ state = CASE PollPlaying(o) -> PLAYING
                                              [] PollStopped(o) -> STOP
                                              [] OTHER -> pre
                /\ (PollOther(o) /\ last) =>
                      /\ state = pre
                      /\ \/ pc = "sleep" /\ upd = "none"
                         \/ pc = "poll" /\ upd = "none" /\ elapsed <= REQUEST_TIMEOUT
                         \/ pc = "play" /\ upd = "False" /\ elapsed > REQUEST_TIMEOUT
                /\ (PollOther(o) /\ ~last) =>
                      reqs[i + 1].action \in {"GetTransportInfo", "Play"}

\* C4 witness: entered in Paused, an unrecognized state and then a non-200
\* answer: false is returned after the second poll, the state still Paused.
C4_Witness ==
    /\ op = "coined_play"
    /\ pc = "play"
    /\ pre = PAUSE
    /\ state = PAUSE
    /\ upd = "False"
    /\ Len(reqs) = 3
    /\ PollOther(reqs[2].out)
    /\ reqs[3].out = Answer(500, "fault")

\* C4 witness of the other half: the second poll returned "STOPPED".
C4_StoppedAtSecondPoll ==
    /\ op = "coined_play"
    /\ pc = "play"
    /\ pre = PLAYING
    /\ state = STOP
    /\ upd = "True"
    /\ Len(reqs) = 3
    /\ PollOther(reqs[2].out)
    /\ PollStopped(reqs[3].out)

\* Every poll so far returned an unrecognized non-null string.
OnlyUnrecognized ==
    /\ Sent("GetTransportInfo") # {}
    /\ \A i \in Sent("GetTransportInfo") : PollOther(reqs[i].out)

\* C5: with every poll unrecognized, _update_current_state returns false no
\* later than REQUEST_TIMEOUT seconds after entry.
C5_ReturnsByDeadline ==
    (op = "coined_play" /\ upd # "none" /\ OnlyUnrecognized) =>
        upd = "False" /\ elapsed <= REQUEST_TIMEOUT

\* C5, what the code keeps: false is returned, every poll began by the
\* deadline, and the return comes at most one poll and one sleep after it.
C5_ReturnsAfterDeadline ==
    (op = "coined_play" /\ upd # "none" /\ OnlyUnrecognized) =>
        /\ upd = "False"
        /\ elapsed > REQUEST_TIMEOUT
        /\ elapsed <= REQUEST_TIMEOUT + MaxPollDelay + 1

\* The log entries of the call that name the target url.
UrlEntries == { i \in 1..Len(log) : log[i].url }

ActionCalls ==
    {"register", "play", "stop", "pause", "get_transport_info", "get_protocol_info"}

TimedOut(name) == Done(name) /\ Len(reqs) = 1 /\ reqs[1].out = Timeout

\* C6 as stated: a timeout on any of the six action calls returns 408 and
\* leaves exactly one log entry that names the target url.
C6_TimeoutOneEntry ==
    \A name \in ActionCalls :
        TimedOut(name) => result = Ret(408) /\ Cardinality(UrlEntries) = 1

\* C6 as amended: register, play, stop, pause and get_protocol_info return
\* 408 and get_transport_info returns null; each logs one error entry and
\* then one debug entry, both naming the target url.
C6_TimeoutLogged ==
    \A name \in ActionCalls :
        TimedOut(name) =>
            /\ result = (IF name = "get_transport_info" THEN RetNone ELSE Ret(408))
            /\ Len(log) = 2
            /\ log[1].level = "error" /\ log[1].url
            /\ log[2].level = "debug" /\ log[2].url

\* C6 witness: a get_transport_info that timed out.
C6_Witness ==
    /\ TimedOut("get_transport_info")
    /\ result = RetNone
    /\ Cardinality(UrlEntries) = 2

\* C7: the high-level play lets neither exception escape: a refused
\* connection at registration, at a poll or at Play returns 404, and a missing
\* encoder returns 500.
C7_ExceptionsMapped ==
    Done("coined_play") =>
        /\ result.k # "raise"
        /\ (\E i \in 1..Len(reqs) : reqs[i].out = Refused) => result = Ret(404)
        /\ raised = "NoSuitableEncoderFoundException" => result = Ret(500)
        /\ raised = "ConnectionError" => result = Ret(404)

\* C7 witness: the device refused the second poll.
C7_Witness ==
    /\ Done("coined_play")
    /\ Len(reqs) = 3
    /\ reqs[3] = Req("GetTransportInfo", Refused)
    /\ result = Ret(404)

\* C7 witnesses of the other cases.
C7_RefusedAtPlay ==
    /\ Done("coined_play")
    /\ reqs # <<>>
    /\ reqs[Len(reqs)] = Req("Play", Refused)
    /\ result = Ret(404)

C7_NoEncoderForCodec ==
    /\ Done("coined_play")
    /\ raised = "NoSuitableEncoderFoundException"
    /\ hooks = <<"_before_register">>
    /\ result = Ret(500)

C7_NoEncoderForStream ==
    /\ Done("coined_play")
    /\ raised = "NoSuitableEncoderFoundException"
    /\ hooks = <<>>
    /\ result = Ret(500)

\* C8: get_protocol_info returns the status of every answer, 408 on a
\* timeout, and 400 for a 200 answer whose XML is unparsable or has no Sink.
C8_ReturnsStatus ==
    Done("get_protocol_info") =>
        LET o == reqs[1].out
        IN  /\ (Got200(o) /\ o.body = "sink") => result = Ret(200)
            /\ (Got200(o) /\ o.body \in {"malformed", "nosink"}) => result = Ret(400)
            /\ (o.kind = "answer" /\ o.status # 200) => result = Ret(o.status)
            /\ o.kind = "timeout" => result = Ret(408)

----------------------------------------------------------------------------
(* C9: the fields of a Sink string, by the positions of its separators.    *)

Min(S) == CHOOSE x \in S : \A y \in S : x <= y
Max(S) == CHOOSE x \in S : \A y \in S : y <= x

\* The entry of position i: the commas before it.
EntryAt(str, i) == Cardinality({ p \in 1..(i - 1) : str[p] = "," })

\* The field of position i in its entry: the colons of the entry before it.
FieldAt(str, i) ==
    Cardinality({ p \in 1..(i - 1) : str[p] = ":" /\ EntryAt(str, p) = EntryAt(str, i) })

NumEntries(str) == 1 + Cardinality({ p \in 1..Len(str) : str[p] = "," })

NumFields(str, e) ==
    1 + Cardinality({ p \in 1..Len(str) : str[p] = ":" /\ EntryAt(str, p) = e })

\* The text of field f of entry e.
FieldText(str, e, f) ==
    LET at == { p \in 1..Len(str) :
                  /\ str[p] \notin {",", ":"}
                  /\ EntryAt(str, p) = e
                  /\ FieldAt(str, p) = f }
    IN  IF at = {} THEN <<>> ELSE SubSeq(str, Min(at), Max(at))

\* The third field of each of the first n entries that has four or more.
RECURSIVE ThirdFields(_, _)
ThirdFields(str, n) ==
    IF n = 0 THEN <<>>
    ELSE ThirdFields(str, n - 1)
         \o (IF NumFields(str, n - 1) >= 4
             THEN <<FieldText(str, n - 1, 2)>> ELSE <<>>)

\* C9: the mime types given to add_mime_type are the third colon-delimited
\* field of each comma-separated entry of four or more fields, in entry order;
\* shorter entries give nothing.
C9_SinkMimeTypes ==
    (Done("get_protocol_info") /\ reqs[1].out.body = "sink") =>
        LET sink == reqs[1].out.sink
        IN  /\ mimes = ThirdFields(sink, NumEntries(sink))
            /\ sink = Chars(<<"h", "*">>) => mimes = <<>>
            /\ sink = Chars(<<"h", "*", "m", "*">>) \o <<",">> \o Chars(<<"h", "*", "w", "*">>)
                  => mimes = << <<"m">>, <<"w">> >>

\* C9 witness: the Sink of section 8, two entries of four fields.
C9_Witness ==
    /\ Done("get_protocol_info")
    /\ reqs[1].out.sink =
          Chars(<<"h", "*", "m", "*">>) \o <<",">> \o Chars(<<"h", "*", "w", "*">>)
    /\ mimes = << <<"m">>, <<"w">> >>

\* C9 witness of a skipped entry: three fields, then four after ", ".
C9_ShortEntrySkipped ==
    /\ Done("get_protocol_info")
    /\ reqs[1].out.sink =
          Chars(<<"h", "*", "m">>) \o <<",", " ">> \o Chars(<<"h", "m", "w", "*">>)
    /\ mimes = << <<"w">> >>

----------------------------------------------------------------------------
(* C10: validation of a Device.                                            *)

RequiredKinds == {SERVICE_TRANSPORT, SERVICE_CONNECTION, SERVICE_RENDERING}

\* The required kinds no service of the list has.
AbsentKinds ==
    { k \in RequiredKinds :
        \A i \in 1..Len(services) : ServiceKind(services[i].service_type) # k }

\* C10: validate() returns true exactly when a service of each of the three
\* kinds is in the list, in any order and among any unknown services; with
\* exactly one kind absent it returns false and its message names that kind.
C10_Validate ==
    op = "validate" =>
        /\ valid.ret = "True" <=> AbsentKinds = {}
        /\ valid.ret \in {"True", "False"}
        /\ Cardinality(AbsentKinds) = 1 => valid.ret = "False" /\ valid.msg \in AbsentKinds

\* C10 witness: connection and transport given in that order after an unknown
\* service, rendering absent.
C10_Witness ==
    /\ op = "validate"
    /\ Len(services) = 3
    /\ ServiceKind(services[1].service_type) = "None"
    /\ ServiceKind(services[2].service_type) = SERVICE_CONNECTION
    /\ ServiceKind(services[3].service_type) = SERVICE_TRANSPORT
    /\ valid = [ret |-> "False", msg |-> "rendering"]

\* C10 witness of an accepted Device.
C10_Accepted ==
    /\ op = "validate"
    /\ AbsentKinds = {}
    /\ valid.ret = "True"

----------------------------------------------------------------------------
(* C11: the urls of a Service and the address of its Device.               *)

\* The url text a read of a property goes by.
StoredText(k, property) ==
    IF property = "control_url" THEN endpoints[k]._control_url
    ELSE endpoints[k]._event_url

\* C11: at every moment control_url and event_url of each Service are the
\* join of the Device's current ip and port with the stored path, and a read
\* after a change of ip or port gives the url at the new address.
C11_CurrentAddress ==
    /\ \A k \in Kinds :
          /\ control_url(endpoints[k]) =
                urljoin(HostUrl(address.ip, address.port), endpoints[k]._control_url)
          /\ event_url(endpoints[k]) =
                urljoin(HostUrl(address.ip, address.port), endpoints[k]._event_url)
    /\ accessed.kind # "none" =>
          accessed.url = urljoin(HostUrl(accessed.at.ip, accessed.at.port),
                                 StoredText(accessed.kind, accessed.property))

----------------------------------------------------------------------------
(* C12, C16: the text of a UpnpContentFeatures.                            *)

Rendered == pc = "str" /\ features.made

\* The field (1, 2 or 3, from the left of the 8-digit word) a flag constant
\* is written in, the unit of that field, and the digits the selected
\* constants of a field add up to.
FlagField(c) == IF c >= 10000000 THEN 1 ELSE IF c >= 1000000 THEN 2 ELSE 3
FieldUnit(f) == IF f = 1 THEN 10000000 ELSE IF f = 2 THEN 1000000 ELSE 100000
FieldSum(flags, f) ==
    sum({c \in flags : FlagField(c) = f}) \div FieldUnit(f)

\* C12: for every subset of the twelve flag constants the flags field has 32
\* characters: the sum of the selected constants zero-padded to exactly 8
\* digits, then 24 zeros, and each of the three fields of the 8-digit word
\* holds the digits of its own selected constants and nothing of another's.
C12_FlagsField ==
    Rendered =>
        LET t == features.text.flags
            sel == features.args.flags
        IN /\ Len(t) = 32
           /\ SubSeq(t, 1, 8) = zfill(str_int(sum(sel)), 8)
           /\ \A i \in 9..32 : t[i] = "0"
           /\ \A f \in 1..3 :
                 /\ FieldSum(sel, f) <= 9
                 /\ t[f] = DigitChars[FieldSum(sel, f) + 1]

\* The example of the claim: STREAMING_TRANSFER_MODE_SUPPORTED and
\* DLNA_VERSION_15_SUPPORTED render as 01100000 and 24 zeros.
FlagsExample ==
    (Rendered /\ features.args.flags =
        {STREAMING_TRANSFER_MODE_SUPPORTED, DLNA_VERSION_15_SUPPORTED})
    => features.text.flags
         = <<"0", "1", "1", "0", "0", "0", "0", "0">> \o Zeros(24)

\* The flags of register (lines 243-248) render in 32 characters.
RegisterFlags ==
    {STREAMING_TRANSFER_MODE_SUPPORTED, BACKGROUND_TRANSFER_MODE_SUPPORTED,
     CONNECTION_STALLING_SUPPORTED, DLNA_VERSION_15_SUPPORTED}
RegisterFlagsRendered ==
    (Rendered /\ features.args.flags = RegisterFlags)
    => features.text.flags
         = <<"0", "1", "7", "0", "0", "0", "0", "0">> \o Zeros(24)

\* C16: the text carries the three booleans given at construction, in the
\* order time-seek, range, transcoded, as '1' for true and '0' for false.
C16_PrefixFlags ==
    Rendered =>
        /\ features.text.op = <<Bit(features.args.support_time_seek),
                                Bit(features.args.support_range)>>
        /\ features.text.ci = Bit(features.args.transcoded)

\* What the code does: the prefix is always 00 and 0.
PrefixAlwaysZero ==
    Rendered => features.text.op = <<"0", "0">> /\ features.text.ci = "0"

----------------------------------------------------------------------------
(* C13: what changes the local state.                                      *)

\* The step sends a request: a call made on its own leaves it as the only
\* request, a step of the high-level play appends it.
Issues ==
    \/ pc = "ready" /\ reqs' # <<>> /\ pc' = "ready"
    \/ pc # "ready" /\ Len(reqs') = Len(reqs) + 1

RequestOf(name) ==
    CASE name = "play" -> "Play"
      [] name = "stop" -> "Stop"
      [] name = "pause" -> "Pause"

\* The step is a play, stop or pause whose request was answered 200.
ChangedByCall ==
    /\ Issues
    /\ \E name \in {"play", "stop", "pause"} :
          /\ reqs'[Len(reqs')].action = RequestOf(name)
          /\ Got200(reqs'[Len(reqs')].out)
          /\ state' = Target(name)

\* The step is a poll of _update_current_state that returned "PLAYING" or
\* "STOPPED".
ChangedByPoll ==
    /\ pc = "poll"
    /\ Issues
    /\ reqs'[Len(reqs')].action = "GetTransportInfo"
    /\ \/ PollPlaying(reqs'[Len(reqs')].out) /\ state' = PLAYING
       \/ PollStopped(reqs'[Len(reqs')].out) /\ state' = STOP

\* C13: the state starts Idle and a step changes it only as a play, stop or
\* pause answered 200 or as a reconciliation poll that returned "PLAYING" or
\* "STOPPED"; register, get_transport_info and get_protocol_info leave it
\* alone for every outcome, and so do the sleep and the deadline checks.
C13_StateFrame ==
    /\ state = IDLE
    /\ [][/\ state' # state => ChangedByCall \/ ChangedByPoll
          /\ (pc = "ready" /\ op' \in {"register", "get_transport_info",
                                       "get_protocol_info"}) => state' = state
          /\ pc \in {"register", "sleep"} => state' = state]_vars

\* C13 witness: a poll of the high-level play entered in Playing returned
\* "STOPPED" and the state is Stopped before any Play is sent.
C13_Witness ==
    /\ op = "coined_play"
    /\ pc = "play"
    /\ pre = PLAYING
    /\ state = STOP
    /\ Len(reqs) = 2
    /\ PollStopped(reqs[2].out)

\* C13 witness of the frame: a get_transport_info that read "PLAYING" with
\* the state Paused.
C13_ReadOnly ==
    /\ Done("get_transport_info")
    /\ reqs[1].out = Answer(200, "PLAYING")
    /\ pre = PAUSE
    /\ state = PAUSE

----------------------------------------------------------------------------
(* C14: the hooks of register, play, stop and pause.                       *)

HookPair(name) ==
    CASE name = "register" -> <<"_before_register", "_after_register">>
      [] name = "play" -> <<"_before_play", "_after_play">>
      [] name = "stop" -> <<"_before_stop", "_after_stop">>
      [] name = "pause" -> <<"_before_pause", "_after_pause">>

\* C14: every register, play, stop and pause runs its before-hook once and
\* its after-hook once, on every exit path: an answer of any status, a
\* timeout, a refused connection, a failure while the request is prepared.
C14_HookPairs ==
    \A name \in {"register", "play", "stop", "pause"} :
        Done(name) => hooks = HookPair(name)

\* What the code keeps: play and stop run their pair on every exit path, and
\* so does a register that reaches its request; pause runs no hook and a
\* register that fails before its request runs the before-hook only.
HooksKept ==
    /\ \A name \in {"play", "stop"} : Done(name) => hooks = HookPair(name)
    /\ Done("register") =>
          hooks = (IF reqs = <<>> THEN <<"_before_register">>
                   ELSE HookPair("register"))
    /\ Done("pause") => hooks = <<>>

----------------------------------------------------------------------------
(* C15, C18: the debug entry of an action call.                            *)

\* The entries written by _debug: debug level, naming action and url.
DebugEntries == { i \in 1..Len(log) : log[i].level = "debug" /\ log[i].url }

\* The call that sends a request.
CallOf(action) ==
    CASE action = "SetAVTransportURI" -> "register"
      [] action = "GetTransportInfo" -> "get_transport_info"
      [] action = "GetProtocolInfo" -> "get_protocol_info"
      [] action = "Play" -> "play"
      [] action = "Stop" -> "stop"
      [] action = "Pause" -> "pause"

\* The debug entry of the i-th request of the call.
DebugEntryOf(i) ==
    log[CHOOSE j \in DebugEntries :
            Cardinality({k \in DebugEntries : k <= j}) = i]

\* C15: each of the six action calls that sent its request has left exactly
\* one debug entry naming the action and the url when control leaves it,
\* whether it returned a status, timed out, got an unparsable answer or let a
\* refused connection through; in the high-level play every request sent so
\* far has its own entry, in order.
C15_OneDebugEntry ==
    /\ \A name \in ActionCalls :
          (Done(name) /\ reqs # <<>>) =>
              /\ Cardinality(DebugEntries) = 1
              /\ \A i \in DebugEntries : log[i].text = name
    /\ op = "coined_play" =>
          /\ Cardinality(DebugEntries) = Len(reqs)
          /\ \A i \in 1..Len(reqs) : DebugEntryOf(i).text = CallOf(reqs[i].action)

\* C15 witness: a stop() whose connection was refused: the exception reached
\* the caller and the debug entry is there.
C15_Witness ==
    /\ Done("stop")
    /\ reqs = <<Req("Stop", Refused)>>
    /\ result = ConnectionError
    /\ Cardinality(DebugEntries) = 1

\* C15 witness of the unparsable answer.
C15_Unparsable ==
    /\ Done("get_transport_info")
    /\ reqs = <<Req("GetTransportInfo", Answer(200, "malformed"))>>
    /\ Cardinality(DebugEntries) = 1
    /\ Len(log) = 2


\* C18: the debug entry of every request that was answered, whatever the
\* status, records the status and body of the answer; the placeholder 'none'
\* stands only in the entry of a request that got no answer.
C18_AnswerLogged ==
    \A i \in 1..Len(reqs) :
        LET e == DebugEntryOf(i)
            o == reqs[i].out
        IN  /\ o.kind = "answer" => ~e.none /\ e.status = o.status
            /\ o.kind # "answer" => e.none

\* What the code keeps: 'none' stands for every request without an answer
\* and for every answer whose status is 400 or more.
NoneForErrors ==
    \A i \in 1..Len(reqs) :
        LET e == DebugEntryOf(i)
            o == reqs[i].out
        IN  /\ (o.kind = "answer" /\ o.status < 400) => ~e.none /\ e.status = o.status
            /\ (o.kind = "answer" /\ o.status >= 400) => e.none
            /\ o.kind # "answer" => e.none

----------------------------------------------------------------------------
(* C19, C20: the value of the high-level play.                             *)

\* C19: a high-level play that returned 200 leaves the state Playing: the
\* device reported "PLAYING", or it reported "STOPPED" and Play was answered
\* 200, or reconciliation failed and the fallback Play was answered 200.
C19_Returned200Playing ==
    (Done("coined_play") /\ result = Ret(200)) => state = PLAYING

\* C19 witness: entered in Paused, reconciliation failed, the fallback Play
\* was answered 200.
C19_Witness ==
    /\ Done("coined_play")
    /\ result = Ret(200)
    /\ pre = PAUSE
    /\ upd = "False"
    /\ reqs[Len(reqs)] = Req("Play", Answer(200, "xml"))
    /\ state = PLAYING

\* C19 witness of the branch without Play: the device reported "PLAYING".
C19_AlreadyPlaying ==
    /\ Done("coined_play")
    /\ result = Ret(200)
    /\ pre = IDLE
    /\ upd = "True"
    /\ Sent("Play") = {}
    /\ state = PLAYING

\* C20: the high-level play always ends with a status code: once
\* _update_current_state has returned true the state is Playing or Stopped,
\* and it is Stopped when Play is about to be sent.
C20_AlwaysStatus ==
    /\ Done("coined_play") => result.k = "int"
    /\ (op = "coined_play" /\ upd = "True") => state \in {PLAYING, STOP}
    /\ (op = "coined_play" /\ upd = "True" /\ pc = "play") => state = STOP

\* C20 witness: entered in Idle, the device reported "STOPPED", Play was
\* answered 500 and that status is the value.
C20_Witness ==
    /\ Done("coined_play")
    /\ pre = IDLE
    /\ upd = "True"
    /\ LastPollBody = "STOPPED"
    /\ state = STOP
    /\ result = Ret(500)

----------------------------------------------------------------------------
(* C17: what from_url gives back.                                          *)

\* A device element of an accepted type with friendlyName, UDN and complete
\* service elements.
Acceptable(d) ==
    /\ d.deviceType \in ST_HEADERS
    /\ d.friendlyName
    /\ d.UDN
    /\ d.services = "complete"

\* C17: from_url lets no failure through: for a url with or without a port
\* and every outcome of the fetch it gives a Device or no Device, and a
\* Device only when the descriptor holds a device element of an accepted
\* type with all required fields.
C17_NoFailureEscapes ==
    pc = "made" =>
        /\ made.k \in {"device", "None"}
        /\ made.k = "device" =>
              /\ fetch.out.kind = "answer"
              /\ fetch.out.xml
              /\ \E i \in 1..Len(fetch.out.devices) : Acceptable(fetch.out.devices[i])

\* What the code keeps: the same for a url whose netloc is host:port; a url
\* without a port ends in ValueError whenever the fetch was answered.
WithPortNoFailure ==
    pc = "made" =>
        /\ Len(fetch.netloc) = 2 =>
              /\ made.k \in {"device", "None"}
              /\ made.k = "device" =>
                    /\ made.element \in 1..Len(fetch.out.devices)
                    /\ Acceptable(fetch.out.devices[made.element])
                    /\ made.ip = fetch.netloc[1] /\ made.port = fetch.netloc[2]
        /\ (Len(fetch.netloc) # 2 /\ fetch.out.kind = "answer") =>
              made.k = "ValueError"
        /\ fetch.out.kind # "answer" => made.k = "None"

\* A Device is made from the second device element, the first being of
\* another type.
SecondDeviceMade ==
    /\ pc = "made"
    /\ made.k = "device"
    /\ made.element = 2
    /\ made.workarounds = <<"YamahaWorkaround">>

----------------------------------------------------------------------------
(* C21: the codec list after a get_protocol_info that did not succeed.     *)

\* C21: a get_protocol_info that timed out, was answered with a status other
\* than 200, or gave 400 for a 200 answer that is unparsable or has no usable
\* Sink, leaves the codec list as it was at entry; the list differs from the
\* one at entry only after a call that returned 200.
C21_FailureKeepsCodecs ==
    Done("get_protocol_info") =>
        LET o == reqs[1].out
        IN  /\ (\/ o.kind = "timeout"
                \/ o.kind = "answer" /\ o.status # 200
                \/ result = Ret(400)) => codecs = pre_codecs
            /\ codecs # pre_codecs => result = Ret(200)

\* What the code keeps: the list is as at entry after a timeout, a refused
\* connection, an answer other than 200 and a 200 answer that is not XML; a
\* 200 answer that is XML without a usable Sink leaves it empty.
CodecsClearedBeforeSink ==
    Done("get_protocol_info") =>
        LET o == reqs[1].out
        IN  /\ (o.kind # "answer" \/ o.status # 200 \/ o.body = "malformed")
                  => codecs = pre_codecs
            /\ (Got200(o) /\ o.body \in {"nosink", "emptysink"})
                  => codecs = <<>> /\ result = Ret(400)

----------------------------------------------------------------------------
(* C22: the values of the local state.                                     *)

\* C22: the state is Idle, Playing, Paused or Stopped, and it is Stopped only
\* when the last change of the state was made by a poll of
\* _update_current_state that returned "STOPPED": a stop() ends in Stopped
\* only if it was entered in Stopped and not answered 200, and a Device whose
\* state was never changed by a poll is not in Stopped.
C22_StoppedOnlyByPoll ==
    /\ state \in States
    /\ state = STOP =>
          /\ changed.op = "coined_play"
          /\ changed.action = "GetTransportInfo"
          /\ PollStopped(changed.out)
    /\ (Done("stop") /\ state = STOP) => pre = STOP /\ ~Got200(reqs[1].out)
    /\ (Done("stop") /\ Got200(reqs[1].out)) => state = IDLE
    /\ changed = NoChange => state = IDLE

\* C22 witness: a stop() entered in Stopped, answered 500: the state is still
\* the Stopped a poll had set.
C22_Witness ==
    /\ Done("stop")
    /\ pre = STOP
    /\ reqs = <<Req("Stop", Answer(500, "xml"))>>
    /\ state = STOP
    /\ changed.action = "GetTransportInfo"

\* C22 witness of the other half: a stop() answered 200 is the last change
\* and the state is Idle.
C22_StopGivesIdle ==
    /\ Done("stop")
    /\ pre = STOP
    /\ changed = [op |-> "stop", action |-> "Stop", out |-> Answer(200, "xml")]
    /\ state = IDLE

====
